---- MODULE Spec2Model ----
(***************************************************************************)
(* Deadline countdown bot (src/main.py): the per-group deadline cache, the *)
(* PostgreSQL table, the APScheduler job store and the two update handlers *)
(* of the Telegram application, as a state machine.                        *)
(*                                                                         *)
(* One asyncio event loop runs everything.  The Application is built       *)
(* without concurrent_updates, so update handlers run one after another;   *)
(* scheduler jobs are separate tasks of the same loop and may run whenever *)
(* a handler is suspended at an await.                                     *)
(***************************************************************************)
EXTENDS Integers, Sequences, FiniteSets, TLC

\* ------------------------------------------------------------------------
\* Bounds of the model
\* ------------------------------------------------------------------------
MaxDays == 1            \* midnights that pass after the initial day
MaxJobs == 2            \* jobs add_job creates in one run of the model
MaxDaysLeft == 60       \* largest day count given to format_message alone
MaxOverdue == 10        \* most days past the deadline given to it
MaxLen == 4             \* longest text given to clean_markdown alone

\* ------------------------------------------------------------------------
\* Inputs: the chat ids of the groups that send updates
\* ------------------------------------------------------------------------
Groups == {1, 2}

\* ------------------------------------------------------------------------
\* datetime.strptime(text, "%Y-%m-%d").date() and date arithmetic
\* ------------------------------------------------------------------------
NoDate == 0             \* Python None / no date; real ordinals are >= 1

Digits == {"0", "1", "2", "3", "4", "5", "6", "7", "8", "9"}

DigitVal(c) ==
    CASE c = "0" -> 0 [] c = "1" -> 1 [] c = "2" -> 2 [] c = "3" -> 3
      [] c = "4" -> 4 [] c = "5" -> 5 [] c = "6" -> 6 [] c = "7" -> 7
      [] c = "8" -> 8 [] c = "9" -> 9

\* value of a digit sequence, a leading blank (the " [1-9]" form of %d) ignored
RECURSIVE NumVal(_)
NumVal(s) ==
    IF s = <<>> THEN 0
    ELSE IF s[Len(s)] = " " THEN NumVal(SubSeq(s, 1, Len(s) - 1))
    ELSE 10 * NumVal(SubSeq(s, 1, Len(s) - 1)) + DigitVal(s[Len(s)])

\* %Y : \d\d\d\d
MatchesYear(s) == Len(s) = 4 /\ \A i \in 1..4 : s[i] \in Digits

\* %m : 1[0-2] | 0[1-9] | [1-9]
MatchesMonth(s) ==
    \/ Len(s) = 2 /\ s[1] = "1" /\ s[2] \in {"0", "1", "2"}
    \/ Len(s) = 2 /\ s[1] = "0" /\ s[2] \in Digits \ {"0"}
    \/ Len(s) = 1 /\ s[1] \in Digits \ {"0"}

\* %d : 3[0-1] | [1-2]\d | 0[1-9] | [1-9] | " "[1-9]
MatchesDay(s) ==
    \/ Len(s) = 2 /\ s[1] = "3" /\ s[2] \in {"0", "1"}
    \/ Len(s) = 2 /\ s[1] \in {"1", "2"} /\ s[2] \in Digits
    \/ Len(s) = 2 /\ s[1] = "0" /\ s[2] \in Digits \ {"0"}
    \/ Len(s) = 1 /\ s[1] \in Digits \ {"0"}
    \/ Len(s) = 2 /\ s[1] = " " /\ s[2] \in Digits \ {"0"}

IsLeap(y) == y % 4 = 0 /\ (y % 100 # 0 \/ y % 400 = 0)

DaysInMonth(y, m) ==
    IF m = 2 THEN (IF IsLeap(y) THEN 29 ELSE 28)
    ELSE IF m \in {4, 6, 9, 11} THEN 30 ELSE 31

RECURSIVE DaysBeforeMonth(_, _)
DaysBeforeMonth(y, m) ==
    IF m <= 1 THEN 0 ELSE DaysBeforeMonth(y, m - 1) + DaysInMonth(y, m - 1)

DaysBeforeYear(y) ==
    (y - 1) * 365 + ((y - 1) \div 4) - ((y - 1) \div 100) + ((y - 1) \div 400)

\* date(y, m, d).toordinal(); subtracting two dates subtracts their ordinals
ToOrdinal(y, m, d) == DaysBeforeYear(y) + DaysBeforeMonth(y, m) + d

\* date(y, m, d) raises ValueError outside these ranges
ValidYMD(y, m, d) ==
    /\ y >= 1
    /\ m \in 1..12
    /\ d \in 1..DaysInMonth(y, m)

\* The positions (i, j) of the two "-" of a text the whole of which matches
\* %Y-%m-%d.  The format has no "-" inside a field, so there is at most one.
FieldSplits(text) ==
    {p \in (1..Len(text)) \X (1..Len(text)) :
        /\ p[1] < p[2]
        /\ text[p[1]] = "-"
        /\ text[p[2]] = "-"
        /\ MatchesYear(SubSeq(text, 1, p[1] - 1))
        /\ MatchesMonth(SubSeq(text, p[1] + 1, p[2] - 1))
        /\ MatchesDay(SubSeq(text, p[2] + 1, Len(text)))}

\* strptime(...).date() as an ordinal, NoDate where Python raises ValueError
ParseDate(text) ==
    IF FieldSplits(text) = {} THEN NoDate
    ELSE LET p == CHOOSE q \in FieldSplits(text) : TRUE
             y == NumVal(SubSeq(text, 1, p[1] - 1))
             m == NumVal(SubSeq(text, p[1] + 1, p[2] - 1))
             d == NumVal(SubSeq(text, p[2] + 1, Len(text)))
         IN  IF ValidYMD(y, m, d) THEN ToOrdinal(y, m, d) ELSE NoDate

\* ------------------------------------------------------------------------
\* Inputs: the process-local date at start, and the message texts groups send
\* ------------------------------------------------------------------------
StartDay == ToOrdinal(2025, 12, 30)

TxtToday == <<"2","0","2","5","-","1","2","-","3","0">>
TxtShort == <<"2","0","2","6","-","1","-","9">>
TxtPast  == <<"2","0","2","5","-","1","2","-","2","9">>
TxtNoDay == <<"2","0","2","5","-","0","2","-","3","0">>
TxtWords == <<"n","o","t","-","a","-","d","a","t","e">>

Texts == {TxtToday, TxtShort, TxtPast, TxtNoDay, TxtWords}

\* update.message.text parsed, for every text of the model
Parsed == [text \in Texts |-> ParseDate(text)]

\* ------------------------------------------------------------------------
\* Outbound messages
\* ------------------------------------------------------------------------
Msg(kind, tone, d, days) == [kind |-> kind, tone |-> tone, date |-> d, days |-> days]

\* variant: the band limits taken as exclusive
format_message_exclusive(days) ==
    IF days = 0 THEN Msg("countdown", "today", NoDate, 0)
    ELSE IF days = 1 THEN Msg("countdown", "one_day", NoDate, 1)
    ELSE IF days < 3 THEN Msg("countdown", "urgent", NoDate, days)
    ELSE IF days < 7 THEN Msg("countdown", "high_alert", NoDate, days)
    ELSE IF days < 14 THEN Msg("countdown", "caution", NoDate, days)
    ELSE Msg("countdown", "long_range", NoDate, days)

\* variant: a passed deadline is announced like the deadline day
format_message_overdue_today(days) ==
    IF days <= 0 THEN Msg("countdown", "today", NoDate, 0)
    ELSE IF days = 1 THEN Msg("countdown", "one_day", NoDate, 1)
    ELSE IF days <= 3 THEN Msg("countdown", "urgent", NoDate, days)
    ELSE IF days <= 7 THEN Msg("countdown", "high_alert", NoDate, days)
    ELSE IF days <= 14 THEN Msg("countdown", "caution", NoDate, days)
    ELSE Msg("countdown", "long_range", NoDate, days)

\* format_message: the tone of the countdown and the day count its text shows
format_message(days) ==
    IF days = 0 THEN Msg("countdown", "today", NoDate, 0)
    ELSE IF days = 1 THEN Msg("countdown", "one_day", NoDate, 1)
    ELSE IF days <= 3 THEN Msg("countdown", "urgent", NoDate, days)
    ELSE IF days <= 7 THEN Msg("countdown", "high_alert", NoDate, days)
    ELSE IF days <= 14 THEN Msg("countdown", "caution", NoDate, days)
    ELSE Msg("countdown", "long_range", NoDate, days)

PassedReply == Msg("already_passed", "none", NoDate, 0)
InvalidFormatReply == Msg("invalid_format", "none", NoDate, 0)
WelcomeMsg == Msg("welcome", "none", NoDate, 0)
ConfirmationMsg(d, days_left) == Msg("confirmation", "none", d, days_left)

\* one call of bot.send_message / reply_text and whether the transport took it
Attempt(g, msg, ok) == [to |-> g, msg |-> msg, ok |-> ok]

\* ------------------------------------------------------------------------
\* State
\* ------------------------------------------------------------------------
VARIABLES
    today,           \* date.today() of the process, as an ordinal
    phase,           \* "before" or "after" the 07:00 cron trigger of today
    deadlines,       \* the cache: dict group_id -> date
    db,              \* table deadlines: group_id -> deadline_date
    jobs,            \* the scheduler's job store: job instances [id, n]
    scheduled_jobs,  \* dict group_id -> the Job object add_job returned
    nextJob,         \* number of Job objects created so far
    due,             \* job runs the scheduler has dispatched, not yet run
    pc,              \* where the update handler in progress is suspended
    ev,              \* the update being (or last) handled
    out,             \* send attempts of the handler of ev, in order
    res,             \* how the handler of ev ended
    fire,            \* the last run of send_countdown by a job
    last,            \* per group, the last accepted date text to arrive
    zoneLead,        \* date in the trigger's time zone minus date.today(),
                     \* at the trigger time; fixed by the process's time zone
    arg,             \* argument of the pure function under study
    ret              \* its results: <<f(arg)>>, then <<f(arg), f(f(arg))>>

vars == <<today, phase, deadlines, db, jobs, scheduled_jobs, nextJob, due,
          pc, ev, out, res, fire, last, zoneLead, arg, ret>>

state == <<deadlines, db, jobs, scheduled_jobs>>

Put(f, k, v) == [x \in (DOMAIN f) \cup {k} |-> IF x = k THEN v ELSE f[x]]

EmptyDict == [x \in {} |-> NoDate]

NoEvent == [op |-> "none", g |-> 0, text |-> <<>>, today |-> NoDate, d |-> NoDate]

NoFire == [ran |-> FALSE, sent |-> <<>>]

\* the module state of main.py right after import, on the first day
Started ==
    /\ today = StartDay
    /\ phase = "before"
    /\ deadlines = EmptyDict
    /\ db = EmptyDict
    /\ jobs = {}
    /\ scheduled_jobs = EmptyDict
    /\ nextJob = 0
    /\ due = {}
    /\ pc = "idle"
    /\ ev = NoEvent
    /\ out = <<>>
    /\ res = "none"
    /\ fire = NoFire
    /\ last = EmptyDict

\* The bot: the process's time zone is not set by the code; either it shares
\* the date of Africa/Addis_Ababa at 07:00 there, or (west of UTC-4) it is a
\* day behind.
Init ==
    /\ Started
    /\ zoneLead \in {0, 1}
    /\ arg = 0
    /\ ret = <<>>

\* ------------------------------------------------------------------------
\* Database wrappers
\* ------------------------------------------------------------------------
\* get_deadline_from_db: the row's date, None when there is no row
get_deadline_from_db(g) == IF g \in DOMAIN db THEN db[g] ELSE NoDate

\* variant: ON CONFLICT (group_id) DO NOTHING
set_deadline_in_db_keep(table, g, d) == IF g \in DOMAIN table THEN table ELSE Put(table, g, d)

\* set_deadline_in_db: INSERT ... ON CONFLICT (group_id) DO UPDATE
set_deadline_in_db(table, g, d) == Put(table, g, d)

\* ------------------------------------------------------------------------
\* send_countdown
\* ------------------------------------------------------------------------
\* variant: the subtraction the other way round
send_countdown_since(g, ok) ==
    IF g \notin DOMAIN deadlines THEN <<>>
    ELSE <<Attempt(g, format_message(today - deadlines[g]), ok)>>

\* The send attempts one call of send_countdown(g) makes: none when g is not
\* in the cache, else one, whose failure is caught and logged.
send_countdown(g, ok) ==
    IF g \notin DOMAIN deadlines THEN <<>>
    ELSE <<Attempt(g, format_message(deadlines[g] - today), ok)>>

\* ------------------------------------------------------------------------
\* The scheduler's job store (APScheduler, one default memory store)
\* ------------------------------------------------------------------------
JobsOf(js, g) == {j \in js : j.id = g}

\* Job.remove(): removes the stored job with the job's id;
\* JobLookupError when the store has none
remove_raises(js, j) == JobsOf(js, j.id) = {}
remove_job(js, j) == js \ JobsOf(js, j.id)

\* scheduler.add_job(..., id=f"countdown_{group_id}"), replace_existing left
\* False: ConflictingIdError when the store already has a job of that id
add_job_raises(js, g) == JobsOf(js, g) # {}
add_job(js, g, n) == js \cup {[id |-> g, n |-> n]}

\* variant: the old job is left in the store
remove_old_job_kept(js, sj, g) == js

\* handle_deadline, "Remove old job if exists"
remove_old_job(js, sj, g) == IF g \in DOMAIN sj THEN remove_job(js, sj[g]) ELSE js

\* ------------------------------------------------------------------------
\* handle_deadline
\* ------------------------------------------------------------------------
\* variants: the comparison off by one, either way
is_past_incl_today(d, t) == d - t <= 0
is_past_by_two(d, t) == d - t < -1

\* days_left = (deadline_date - date.today()).days;  if days_left < 0
is_past(d, t) == d - t < 0

DeadlineEvent(g, text) ==
    [op |-> "deadline", g |-> g, text |-> text, today |-> today, d |-> Parsed[text]]

\* variant: the immediate countdown is sent after the except branch as well
DeadlineInvalid_then_countdown(g, text) ==
    /\ pc = "idle"
    /\ Parsed[text] = NoDate
    /\ ev' = DeadlineEvent(g, text)
    /\ \E ok \in BOOLEAN :
          /\ out' = <<Attempt(g, InvalidFormatReply, ok)>> \o send_countdown(g, TRUE)
          /\ res' = IF ok THEN "value_error" ELSE "transport_error"
    /\ UNCHANGED <<today, phase, deadlines, db, jobs, scheduled_jobs, nextJob,
                   due, pc, fire, last, zoneLead,
                   arg, ret>>

\* strptime raises ValueError: the except branch replies and the handler ends
DeadlineInvalid(g, text) ==
    /\ pc = "idle"
    /\ Parsed[text] = NoDate
    /\ ev' = DeadlineEvent(g, text)
    /\ \E ok \in BOOLEAN :
          /\ out' = <<Attempt(g, InvalidFormatReply, ok)>>
          /\ res' = IF ok THEN "value_error" ELSE "transport_error"
    /\ UNCHANGED <<today, phase, deadlines, db, jobs, scheduled_jobs, nextJob,
                   due, pc, fire, last, zoneLead,
                   arg, ret>>

\* days_left < 0: reply and return
DeadlinePassed(g, text) ==
    /\ pc = "idle"
    /\ Parsed[text] # NoDate
    /\ is_past(Parsed[text], today)
    /\ ev' = DeadlineEvent(g, text)
    /\ \E ok \in BOOLEAN :
          /\ out' = <<Attempt(g, PassedReply, ok)>>
          /\ res' = IF ok THEN "passed" ELSE "transport_error"
    /\ UNCHANGED <<today, phase, deadlines, db, jobs, scheduled_jobs, nextJob,
                   due, pc, fire, last, zoneLead,
                   arg, ret>>

\* a date of today or later: the cache is written, then the handler awaits
\* set_deadline_in_db
DeadlineAccept(g, text) ==
    /\ pc = "idle"
    /\ Parsed[text] # NoDate
    /\ ~is_past(Parsed[text], today)
    /\ nextJob < MaxJobs
    /\ ev' = DeadlineEvent(g, text)
    /\ deadlines' = Put(deadlines, g, Parsed[text])
    /\ pc' = "persist"
    /\ out' = <<>>
    /\ res' = "running"
    /\ last' = Put(last, g, [d |-> Parsed[text], stored |-> FALSE])
    /\ UNCHANGED <<today, phase, db, jobs, scheduled_jobs, nextJob, due, fire, zoneLead,
                   arg, ret>>

\* set_deadline_in_db raises (connection lost, timeout): the exception is not
\* a ValueError, leaves handle_deadline and is logged by error_handler
PersistFails ==
    /\ pc = "persist"
    /\ pc' = "idle"
    /\ res' = "storage_error"
    /\ UNCHANGED <<today, phase, deadlines, db, jobs, scheduled_jobs, nextJob,
                   due, ev, out, fire, last, zoneLead,
                   arg, ret>>

\* set_deadline_in_db returns; with no await in between the old job is
\* removed, the new one added and recorded, and reply_text is called
PersistDone ==
    /\ pc = "persist"
    /\ db' = set_deadline_in_db(db, ev.g, ev.d)
    /\ last' = Put(last, ev.g, [d |-> ev.d, stored |-> TRUE])
    /\ IF ev.g \in DOMAIN scheduled_jobs /\ remove_raises(jobs, scheduled_jobs[ev.g])
       THEN /\ pc' = "idle"
            /\ res' = "scheduler_error"
            /\ UNCHANGED <<jobs, scheduled_jobs, nextJob, out>>
       ELSE IF add_job_raises(remove_old_job(jobs, scheduled_jobs, ev.g), ev.g)
       THEN /\ jobs' = remove_old_job(jobs, scheduled_jobs, ev.g)
            /\ pc' = "idle"
            /\ res' = "scheduler_error"
            /\ UNCHANGED <<scheduled_jobs, nextJob, out>>
       ELSE /\ jobs' = add_job(remove_old_job(jobs, scheduled_jobs, ev.g),
                               ev.g, nextJob + 1)
            /\ scheduled_jobs' = Put(scheduled_jobs, ev.g,
                                     [id |-> ev.g, n |-> nextJob + 1])
            /\ nextJob' = nextJob + 1
            /\ \E ok \in BOOLEAN :
                  out' = <<Attempt(ev.g, ConfirmationMsg(ev.d, ev.d - ev.today), ok)>>
            /\ pc' = "confirm"
            /\ res' = "running"
    /\ UNCHANGED <<today, phase, deadlines, due, ev, fire, zoneLead,
                   arg, ret>>

\* variant: the countdown is sent ahead of the confirmation
ConfirmDone_countdown_first ==
    /\ pc = "confirm"
    /\ pc' = "idle"
    /\ IF out[Len(out)].ok
       THEN /\ \E ok \in BOOLEAN : out' = send_countdown(ev.g, ok) \o out
            /\ res' = "accepted"
       ELSE /\ out' = out
            /\ res' = "transport_error"
    /\ UNCHANGED <<today, phase, deadlines, db, jobs, scheduled_jobs, nextJob,
                   due, ev, fire, last, zoneLead, arg, ret>>

\* reply_text returns and send_countdown(group_id) runs, or reply_text raises
\* and the exception leaves the handler
ConfirmDone ==
    /\ pc = "confirm"
    /\ pc' = "idle"
    /\ IF out[Len(out)].ok
       THEN /\ \E ok \in BOOLEAN : out' = out \o send_countdown(ev.g, ok)
            /\ res' = "accepted"
       ELSE /\ out' = out
            /\ res' = "transport_error"
    /\ UNCHANGED <<today, phase, deadlines, db, jobs, scheduled_jobs, nextJob,
                   due, ev, fire, last, zoneLead,
                   arg, ret>>

\* ------------------------------------------------------------------------
\* new_chat_member
\* ------------------------------------------------------------------------
Statuses == {"member", "administrator", "left"}

JoinEvent(g) ==
    [op |-> "join", g |-> g, text |-> <<>>, today |-> today, d |-> NoDate]

\* a my_chat_member update whose new status is neither member nor administrator
MemberIgnored(g, status) ==
    /\ pc = "idle"
    /\ status \notin {"member", "administrator"}
    /\ ev' = JoinEvent(g)
    /\ out' = <<>>
    /\ res' = "ignored"
    /\ UNCHANGED <<today, phase, deadlines, db, jobs, scheduled_jobs, nextJob,
                   due, pc, fire, last, zoneLead,
                   arg, ret>>

\* get_deadline_from_db raises: nothing was done yet
JoinReadFails(g, status) ==
    /\ pc = "idle"
    /\ status \in {"member", "administrator"}
    /\ ev' = JoinEvent(g)
    /\ out' = <<>>
    /\ res' = "storage_error"
    /\ UNCHANGED <<today, phase, deadlines, db, jobs, scheduled_jobs, nextJob,
                   due, pc, fire, last, zoneLead,
                   arg, ret>>

\* variant: a group without a row in the table is dropped from the cache
JoinedGroup_forget(g, status) ==
    /\ pc = "idle"
    /\ status \in {"member", "administrator"}
    /\ ev' = JoinEvent(g)
    /\ deadlines' = IF get_deadline_from_db(g) # NoDate
                    THEN Put(deadlines, g, get_deadline_from_db(g))
                    ELSE [x \in (DOMAIN deadlines) \ {g} |-> deadlines[x]]
    /\ \E ok \in BOOLEAN : out' = <<Attempt(g, WelcomeMsg, ok)>>
    /\ res' = "joined"
    /\ UNCHANGED <<today, phase, db, jobs, scheduled_jobs, nextJob, due, pc, fire, last, zoneLead,
                   arg, ret>>

\* the bot became member or administrator of g: a stored deadline is copied
\* to the cache, then ask_for_deadline sends the welcome message
JoinedGroup(g, status) ==
    /\ pc = "idle"
    /\ status \in {"member", "administrator"}
    /\ ev' = JoinEvent(g)
    /\ deadlines' = IF get_deadline_from_db(g) # NoDate
                    THEN Put(deadlines, g, get_deadline_from_db(g))
                    ELSE deadlines
    /\ \E ok \in BOOLEAN : out' = <<Attempt(g, WelcomeMsg, ok)>>
    /\ res' = "joined"
    /\ UNCHANGED <<today, phase, db, jobs, scheduled_jobs, nextJob, due, pc, fire, last, zoneLead,
                   arg, ret>>

\* ------------------------------------------------------------------------
\* Time, the cron trigger and the jobs
\* ------------------------------------------------------------------------
\* 07:00 Africa/Addis_Ababa: the scheduler starts one run of every stored job
Trigger ==
    /\ phase = "before"
    /\ phase' = "after"
    /\ due' = due \cup jobs
    /\ UNCHANGED <<today, deadlines, db, jobs, scheduled_jobs, nextJob, pc, ev,
                   out, res, fire, last, zoneLead,
                   arg, ret>>

\* variant: at the change of date the jobs of passed deadlines are dropped
Midnight_expire ==
    /\ phase = "after"
    /\ due = {}
    /\ today < StartDay + MaxDays
    /\ today' = today + 1
    /\ phase' = "before"
    /\ jobs' = {j \in jobs : j.id \in DOMAIN deadlines /\ deadlines[j.id] >= today + 1}
    /\ UNCHANGED <<deadlines, db, scheduled_jobs, nextJob, due, pc, ev,
                   out, res, fire, last, zoneLead, arg, ret>>

\* the process-local date changes; started runs have run long before
Midnight ==
    /\ phase = "after"
    /\ due = {}
    /\ today < StartDay + MaxDays
    /\ today' = today + 1
    /\ phase' = "before"
    /\ UNCHANGED <<deadlines, db, jobs, scheduled_jobs, nextJob, due, pc, ev,
                   out, res, fire, last, zoneLead,
                   arg, ret>>

\* variant: a job whose send failed is taken out of the scheduler
RunJob_drop_failed(j) ==
    /\ j \in due
    /\ due' = due \ {j}
    /\ \E ok \in BOOLEAN :
          /\ fire' = [ran |-> TRUE, sent |-> send_countdown(j.id, ok)]
          /\ jobs' = IF ok THEN jobs ELSE jobs \ {j}
    /\ UNCHANGED <<today, phase, deadlines, db, scheduled_jobs, nextJob,
                   pc, ev, out, res, last, zoneLead,
                   arg, ret>>

\* a started run executes send_countdown(group_id)
RunJob(j) ==
    /\ j \in due
    /\ due' = due \ {j}
    /\ \E ok \in BOOLEAN :
          fire' = [ran |-> TRUE, sent |-> send_countdown(j.id, ok)]
    /\ UNCHANGED <<today, phase, deadlines, db, jobs, scheduled_jobs, nextJob,
                   pc, ev, out, res, last, zoneLead,
                   arg, ret>>

\* ------------------------------------------------------------------------
\* Process restart: module state is rebuilt empty, main() starts the
\* scheduler and the polling; the table survives
\* ------------------------------------------------------------------------
Restart ==
    /\ deadlines' = EmptyDict
    /\ scheduled_jobs' = EmptyDict
    /\ jobs' = {}
    /\ due' = {}
    /\ pc' = "idle"
    /\ ev' = NoEvent
    /\ out' = <<>>
    /\ res' = "none"
    /\ fire' = NoFire
    /\ last' = EmptyDict
    /\ UNCHANGED <<today, phase, db, nextJob, zoneLead,
                   arg, ret>>

Next ==
    \/ \E g \in Groups, text \in Texts : DeadlineInvalid(g, text)
    \/ \E g \in Groups, text \in Texts : DeadlinePassed(g, text)
    \/ \E g \in Groups, text \in Texts : DeadlineAccept(g, text)
    \/ PersistFails
    \/ PersistDone
    \/ ConfirmDone
    \/ \E g \in Groups, status \in Statuses : MemberIgnored(g, status)
    \/ \E g \in Groups, status \in Statuses : JoinReadFails(g, status)
    \/ \E g \in Groups, status \in Statuses : JoinedGroup(g, status)
    \/ Trigger
    \/ Midnight
    \/ \E j \in due : RunJob(j)
    \/ Restart

Spec == Init /\ [][Next]_vars

\* ------------------------------------------------------------------------
\* format_message on its own: any day count, applied once
\* ------------------------------------------------------------------------
DayCounts == (0 - MaxOverdue)..MaxDaysLeft

InitCompose ==
    /\ Started
    /\ zoneLead = 0
    /\ arg \in DayCounts
    /\ ret = <<>>

Compose ==
    /\ ret = <<>>
    /\ ret' = <<format_message(arg)>>
    /\ UNCHANGED <<today, phase, deadlines, db, jobs, scheduled_jobs, nextJob,
                   due, pc, ev, out, res, fire, last, zoneLead, arg>>

SpecCompose == InitCompose /\ [][Compose]_vars

\* ------------------------------------------------------------------------
\* Properties
\* ------------------------------------------------------------------------
\* a step in which an update handler starts on the update ev'
HandlerStarts ==
    /\ pc = "idle"
    /\ ev'.op # "none"
    /\ <<ev, out, res, pc>>' # <<ev, out, res, pc>>

\* C1: every group has at most one job in the scheduler, and it is the one
\* handle_deadline installed last for the group; a replaced job is out of the
\* store before the new one enters (neither remove() nor add_job ever raises),
\* the trigger starts runs of stored jobs only, and no group has two started
\* runs at once.
C1_OneLiveJobPerGroup ==
    /\ [](\A g \in Groups :
            /\ Cardinality(JobsOf(jobs, g)) <= 1
            /\ JobsOf(jobs, g) =
                   IF g \in DOMAIN scheduled_jobs THEN {scheduled_jobs[g]} ELSE {}
            /\ Cardinality(JobsOf(due, g)) <= 1)
    /\ [](res # "scheduler_error")
    /\ [][\A j \in due' \ due :
              j.id \in DOMAIN scheduled_jobs /\ j = scheduled_jobs[j.id]]_vars

\* a second deadline of a group has replaced the job of its first one
C1_Witness ==
    /\ pc = "confirm"
    /\ DOMAIN scheduled_jobs = {ev.g}
    /\ scheduled_jobs[ev.g].n = 2
    /\ jobs = {scheduled_jobs[ev.g]}

\* C2: when handle_deadline has ended for a text that parses to a date d not
\* before the day it arrived, and neither the database call nor a send failed,
\* the cache and the table hold d for the group, the group has exactly one
\* job, and the handler sent exactly the confirmation and then one countdown.
C2_AcceptedDeadline ==
    (/\ pc = "idle"
     /\ ev.op = "deadline"
     /\ Parsed[ev.text] # NoDate
     /\ Parsed[ev.text] >= ev.today
     /\ res # "storage_error"
     /\ \A i \in DOMAIN out : out[i].ok)
    => /\ ev.g \in DOMAIN deadlines
       /\ deadlines[ev.g] = Parsed[ev.text]
       /\ get_deadline_from_db(ev.g) = Parsed[ev.text]
       /\ Cardinality(JobsOf(jobs, ev.g)) = 1
       /\ Len(out) = 2
       /\ out[1].to = ev.g
       /\ out[1].msg.kind = "confirmation"
       /\ out[1].msg.date = Parsed[ev.text]
       /\ out[2].to = ev.g
       /\ out[2].msg.kind = "countdown"

\* a deadline of the very day of its arrival went through
C2_Witness ==
    /\ pc = "idle"
    /\ ev.op = "deadline"
    /\ Parsed[ev.text] = ev.today
    /\ res = "accepted"
    /\ \A i \in DOMAIN out : out[i].ok
    /\ Len(out) = 2

\* C3: handling a text that strptime rejects changes neither the cache, the
\* table, the job store nor scheduled_jobs, ends the handler, and sends one
\* message, the invalid-format reply to the group.
C3_InvalidTextNoChange ==
    [][(HandlerStarts /\ ev'.op = "deadline" /\ Parsed[ev'.text] = NoDate)
         => /\ UNCHANGED state
            /\ pc' = "idle"
            /\ Len(out') = 1
            /\ out'[1].to = ev'.g
            /\ out'[1].msg = InvalidFormatReply]_vars

\* an impossible calendar date was answered in a group that has a deadline
C3_Witness ==
    /\ pc = "idle"
    /\ ev.op = "deadline"
    /\ ev.text = TxtNoDay
    /\ ev.g \in DOMAIN deadlines
    /\ JobsOf(jobs, ev.g) # {}
    /\ Len(out) = 1

\* C4: handling a date before today changes neither the cache, the table, the
\* job store nor scheduled_jobs, ends the handler, and sends one message, the
\* already-passed reply to the group.
C4_PastDateNoChange ==
    [][(/\ HandlerStarts
        /\ ev'.op = "deadline"
        /\ Parsed[ev'.text] # NoDate
        /\ Parsed[ev'.text] < ev'.today)
         => /\ UNCHANGED state
            /\ pc' = "idle"
            /\ Len(out') = 1
            /\ out'[1].to = ev'.g
            /\ out'[1].msg = PassedReply]_vars

\* yesterday's date was answered in a group that has a deadline and a job
C4_Witness ==
    /\ pc = "idle"
    /\ ev.op = "deadline"
    /\ Parsed[ev.text] = ev.today - 1
    /\ ev.g \in DOMAIN deadlines
    /\ JobsOf(jobs, ev.g) # {}
    /\ Len(out) = 1

\* C5: when new_chat_member has handled the bot joining a group that has a
\* row in the table, the cache holds the stored date, the group has a job,
\* and no welcome prompt was sent; the prompt is sent only to groups without
\* a row.
C5_RejoinReinstalls ==
    (pc = "idle" /\ ev.op = "join" /\ res = "joined")
    => IF ev.g \in DOMAIN db
       THEN /\ ev.g \in DOMAIN deadlines
            /\ deadlines[ev.g] = db[ev.g]
            /\ JobsOf(jobs, ev.g) # {}
            /\ out = <<>>
       ELSE Len(out) = 1 /\ out[1].msg = WelcomeMsg

\* C6: whenever the process is running, every group with a row in the table
\* has a job in the scheduler and an entry in the cache.
C6_RehydratedAfterRestart ==
    \A g \in DOMAIN db :
        /\ JobsOf(jobs, g) # {}
        /\ g \in DOMAIN deadlines

\* C7: when handle_deadline has ended because set_deadline_in_db raised, the
\* cache holds no date for the group other than the date the table holds.
C7_NoUnpersistedCache ==
    (pc = "idle" /\ ev.op = "deadline" /\ res = "storage_error")
    => (ev.g \in DOMAIN deadlines
          => ev.g \in DOMAIN db /\ deadlines[ev.g] = db[ev.g])

\* C8: for every group no handler is working on, once the last date text
\* accepted for it has passed the database write, the cache and the table
\* hold that date, the group has its job, and what the job would send counts
\* down to that date.
C8_LastSubmissionWins ==
    \A g \in DOMAIN last :
        (last[g].stored /\ ~(pc # "idle" /\ ev.g = g))
        => /\ g \in DOMAIN deadlines
           /\ deadlines[g] = last[g].d
           /\ get_deadline_from_db(g) = last[g].d
           /\ Cardinality(JobsOf(jobs, g)) = 1
           /\ send_countdown(g, TRUE) =
                  <<Attempt(g, format_message(last[g].d - today), TRUE)>>

\* a group's second, different deadline has been stored
C8_Witness ==
    /\ pc = "idle"
    /\ ev.op = "deadline"
    /\ res = "accepted"
    /\ scheduled_jobs = [x \in {ev.g} |-> [id |-> ev.g, n |-> 2]]
    /\ last[ev.g].stored
    /\ last[ev.g].d = Parsed[TxtShort]
    /\ db[ev.g] = Parsed[TxtShort]

\* a step in which the started run j of a job executes send_countdown
JobRuns(j) == j \in due /\ j \notin due' /\ fire'.ran

\* C9: a run of the job of group g sends nothing when g is not in the cache,
\* and otherwise makes one send to g, of format_message(deadlines[g] - today);
\* either way the cache, the table, the job store and scheduled_jobs stay as
\* they were.
C9_FireSendsCountdown ==
    [][\A j \in due : JobRuns(j) =>
          /\ UNCHANGED state
          /\ IF j.id \notin DOMAIN deadlines
             THEN fire'.sent = <<>>
             ELSE /\ Len(fire'.sent) = 1
                  /\ fire'.sent[1].to = j.id
                  /\ fire'.sent[1].msg = format_message(deadlines[j.id] - today)]_vars

\* a job ran the day after its group's deadline and sent a countdown of -1
C9_Witness ==
    /\ fire.ran
    /\ Len(fire.sent) = 1
    /\ fire.sent[1].msg.days = -1
    /\ fire.sent[1].to \in DOMAIN deadlines
    /\ deadlines[fire.sent[1].to] = today - 1

\* C10: a run whose send fails leaves the cache, the table, the job store and
\* scheduled_jobs as they were and the other started runs started; and every
\* trigger starts a run of every job in the store, so the job of the failed
\* run and the jobs of the other groups run again at the next trigger.
C10_FailedSendKeepsJobs ==
    /\ [][\A j \in due :
             (JobRuns(j) /\ fire'.sent # <<>> /\ ~fire'.sent[1].ok)
             => /\ UNCHANGED state
                /\ due' = due \ {j}
                /\ pc' = pc]_vars
    /\ [][(phase = "before" /\ phase' = "after") => jobs \subseteq due']_vars

\* the send of a run failed while its job is stored and another group's run
\* is still to come
C10_Witness ==
    /\ fire.ran
    /\ fire.sent # <<>>
    /\ ~fire.sent[1].ok
    /\ JobsOf(jobs, fire.sent[1].to) # {}
    /\ due # {}
    /\ today = StartDay

\* ------------------------------------------------------------------------
\* clean_markdown on its own: any short text, escaped once and once more
\* ------------------------------------------------------------------------
\* escape_chars; the grave accent is written "grave", the character itself
\* not being writable in a string here
Reserved == {"_", "*", "[", "]", "(", ")", "~", "grave", ">", "#", "+", "-", "=",
             "|", "{", "}", ".", "!"}

\* the lookbehind (?<!\\) at position i of the text being substituted
Escaped(text, i) == i > 1 /\ text[i - 1] = "\\"

\* variant: no lookbehind, every special character gets a backslash
escape_char_always(text, i) ==
    IF text[i] \in Reserved THEN <<"\\", text[i]>> ELSE <<text[i]>>

\* variant: the lookbehind fails at the start of the text
escape_char_not_first(text, i) ==
    IF text[i] \in Reserved /\ i > 1 /\ text[i - 1] # "\\"
    THEN <<"\\", text[i]>> ELSE <<text[i]>>

\* what re.sub puts for the character at position i: the pattern matches a
\* special character not preceded by a backslash, escape_char prefixes one
escape_char(text, i) ==
    IF text[i] \in Reserved /\ ~Escaped(text, i)
    THEN <<"\\", text[i]>> ELSE <<text[i]>>

RECURSIVE Flatten(_)
Flatten(ss) == IF ss = <<>> THEN <<>> ELSE Head(ss) \o Flatten(Tail(ss))

clean_markdown(text) == Flatten([i \in 1..Len(text) |-> escape_char(text, i)])

Alphabet == {"a", "*", ".", "\\"}

ShortTexts == UNION {[1..n -> Alphabet] : n \in 0..MaxLen}

InitEscape ==
    /\ Started
    /\ zoneLead = 0
    /\ arg \in ShortTexts
    /\ ret = <<>>

Escape ==
    /\ ret = <<>>
    /\ ret' = <<clean_markdown(arg)>>
    /\ UNCHANGED <<today, phase, deadlines, db, jobs, scheduled_jobs, nextJob,
                   due, pc, ev, out, res, fire, last, zoneLead, arg>>

EscapeAgain ==
    /\ Len(ret) = 1
    /\ ret' = ret \o <<clean_markdown(ret[1])>>
    /\ UNCHANGED <<today, phase, deadlines, db, jobs, scheduled_jobs, nextJob,
                   due, pc, ev, out, res, fire, last, zoneLead, arg>>

NextEscape == Escape \/ EscapeAgain

SpecEscape == InitEscape /\ [][NextEscape]_vars

\* C11: format_message gives day count 0 the "today" tone, 1 the "one day"
\* tone, 2..3 the urgent tone, 4..7 the high-alert tone, 8..14 the caution
\* tone and 15 and more the long-range tone, the last four showing the day
\* count; so every count from 0 up has exactly one of six different tones.
C11_ToneBands ==
    (ret # <<>> /\ arg >= 0)
    => /\ ret[1].kind = "countdown"
       /\ ret[1].tone =
              CASE arg = 0 -> "today"
                [] arg = 1 -> "one_day"
                [] arg \in 2..3 -> "urgent"
                [] arg \in 4..7 -> "high_alert"
                [] arg \in 8..14 -> "caution"
                [] arg >= 15 -> "long_range"
       /\ ret[1].days = arg
       /\ Cardinality({format_message(d).tone : d \in {0, 1, 2, 4, 8, 15}}) = 6

\* the upper limit of a band: 14 days left is still "caution"
C11_Witness ==
    /\ ret # <<>>
    /\ arg = 14
    /\ ret[1].tone = "caution"

Unescaped(text) == {i \in 1..Len(text) : text[i] \in Reserved /\ ~Escaped(text, i)}

NotBackslash(c) == c # "\\"

\* C12: clean_markdown returns a text without special characters as it is;
\* in its result every special character stands right after a backslash; the
\* result is longer than the text by one backslash for each special character
\* that had none before it, and by nothing else; and the characters other
\* than backslashes are the same, in the same order.
C12_EscapeOnce ==
    ret # <<>>
    => /\ ((\A i \in 1..Len(arg) : arg[i] \notin Reserved) => ret[1] = arg)
       /\ \A i \in 1..Len(ret[1]) :
             ret[1][i] \in Reserved => Escaped(ret[1], i)
       /\ Len(ret[1]) = Len(arg) + Cardinality(Unescaped(arg))
       /\ SelectSeq(ret[1], NotBackslash) = SelectSeq(arg, NotBackslash)
       /\ Len(SelectSeq(ret[1], LAMBDA c : c = "\\")) =
              Len(SelectSeq(arg, LAMBDA c : c = "\\")) + Cardinality(Unescaped(arg))

\* a text with one escaped and two unescaped special characters was escaped
C12_Witness ==
    /\ ret # <<>>
    /\ arg = <<"*", "\\", "*", ".">>
    /\ ret[1] = <<"\\", "*", "\\", "*", "\\", ".">>

\* C19: for a day count below zero format_message returns the urgent tone,
\* the one it returns for 2 and for 3, showing the negative count: not the
\* "today" tone, not the long-range tone, and no tone of its own.
C19_OverdueIsUrgent ==
    (ret # <<>> /\ arg < 0)
    => /\ ret[1].tone = "urgent"
       /\ ret[1].tone = format_message(2).tone
       /\ ret[1].tone = format_message(3).tone
       /\ ret[1].days = arg
       /\ ret[1].tone \notin {format_message(0).tone, format_message(15).tone}
       /\ ret[1].tone \in {format_message(d).tone : d \in 0..MaxDaysLeft}

\* the day after the deadline
C19_Witness ==
    /\ ret # <<>>
    /\ arg = -1
    /\ ret[1] = Msg("countdown", "urgent", NoDate, -1)

\* C20: escaping the result of clean_markdown again returns it unchanged.
C20_EscapeIdempotent ==
    Len(ret) = 2 => ret[2] = ret[1]

\* a text that the first pass changed went through the second pass
C20_Witness ==
    /\ Len(ret) = 2
    /\ arg = <<"*", "a", ".">>
    /\ ret[1] = <<"\\", "*", "a", "\\", ".">>
    /\ ret[1] # arg

\* a step in which the process starts anew and all its memory is lost
ProcessRestarts == deadlines' = EmptyDict /\ scheduled_jobs' = EmptyDict /\ jobs' = {}

\* C13: while the process runs, a job leaves the scheduler only when
\* handle_deadline replaces it by a new job of the same group, never when the
\* date changes or the job runs; every trigger starts every job of the store;
\* and a run shows deadline minus today, which is 0 on the deadline day and
\* negative after it.
C13_NoExpiry ==
    /\ [][\A j \in jobs :
             j \notin jobs'
             => \/ pc = "persist" /\ ev.g = j.id /\ JobsOf(jobs', j.id) # {}
                \/ ProcessRestarts]_vars
    /\ [][today' # today => (jobs' = jobs /\ due' = due)]_vars
    /\ [][phase' = "after" /\ phase = "before" => \A j \in jobs : j \in due']_vars
    /\ [][\A j \in due :
             (JobRuns(j) /\ j.id \in DOMAIN deadlines)
             => /\ Len(fire'.sent) = 1
                /\ fire'.sent[1].msg.days = deadlines[j.id] - today
                /\ (deadlines[j.id] < today => fire'.sent[1].msg.days < 0)]_vars

\* the day after its group's deadline the job is still in the store, was
\* started by the trigger and has shown -1
C13_Witness ==
    /\ today = StartDay + 1
    /\ phase = "after"
    /\ fire.ran
    /\ Len(fire.sent) = 1
    /\ fire.sent[1].msg.days = -1
    /\ JobsOf(jobs, fire.sent[1].to) # {}
    /\ deadlines[fire.sent[1].to] = StartDay

\* C14: when new_chat_member handles a second join of a group right after a
\* first one, the group having a row in the table, the cache, the table and
\* the jobs stay as the first join left them, the group has exactly one job,
\* and the second join sends no message.
C14_JoinTwice ==
    [][(/\ HandlerStarts
        /\ ev.op = "join" /\ res = "joined"
        /\ ev'.op = "join" /\ res' = "joined"
        /\ ev'.g = ev.g
        /\ ev.g \in DOMAIN db)
         => /\ UNCHANGED state
            /\ Cardinality(JobsOf(jobs', ev.g)) = 1
            /\ out' = <<>>]_vars

\* C15: the day count a job's run shows is the deadline minus the date in the
\* time zone of the trigger.
C15_ZoneDate ==
    [][\A j \in due :
          (JobRuns(j) /\ j.id \in DOMAIN deadlines)
          => /\ Len(fire'.sent) = 1
             /\ fire'.sent[1].msg =
                    format_message(deadlines[j.id] - (today + zoneLead))]_vars

\* C16: a job's run that happens while handle_deadline of the same group is
\* waiting for the database shows a date that the table holds for the group.
C16_FireSeesStoredDate ==
    [][\A j \in due :
          (JobRuns(j) /\ pc = "persist" /\ ev.g = j.id /\ fire'.sent # <<>>)
          => /\ j.id \in DOMAIN db
             /\ fire'.sent[1].msg = format_message(db[j.id] - today)]_vars

\* C17: on the accept path of handle_deadline the cache is written first;
\* while the database call is pending nothing has been sent and no job was
\* added for the submission; remove() and add_job never raise, the old job
\* being removed before the new one is added; the confirmation is the first
\* message and is
\* sent only once the table holds the date and the group's job is the newly
\* added one, the old one being out of the store; the countdown is the second
\* and last message, sent only after the confirmation went through.
C17_AcceptPathOrder ==
    (ev.op = "deadline" /\ ev.d # NoDate /\ ~is_past(ev.d, ev.today))
    => /\ pc = "persist"
          => /\ deadlines[ev.g] = ev.d
             /\ ~last[ev.g].stored
             /\ out = <<>>
             /\ \A j \in jobs : j.n <= nextJob
       /\ res = "storage_error" => out = <<>>
       /\ res # "scheduler_error"
       /\ out # <<>>
          => /\ out[1].msg = ConfirmationMsg(ev.d, ev.d - ev.today)
             /\ last[ev.g].stored
             /\ db[ev.g] = ev.d
             /\ deadlines[ev.g] = ev.d
             /\ scheduled_jobs[ev.g].n = nextJob
             /\ JobsOf(jobs, ev.g) = {scheduled_jobs[ev.g]}
       /\ pc = "confirm" => Len(out) = 1
       /\ Len(out) > 1
          => /\ Len(out) = 2
             /\ pc = "idle"
             /\ out[1].ok
             /\ out[2].msg.kind = "countdown"
             /\ out[2].to = ev.g

\* a second deadline of a group went all the way: its job replaced the first
\* and both messages were sent
C17_Witness ==
    /\ pc = "idle"
    /\ ev.op = "deadline"
    /\ res = "accepted"
    /\ Len(out) = 2
    /\ nextJob = 2
    /\ jobs = {[id |-> ev.g, n |-> 2]}

\* C18: every group with a job in the store, or with a started run, is in
\* the cache; no step takes a group out of the cache while the process lives
\* (a restart empties cache and scheduler together); so every run of a job
\* makes a send.
C18_JobsHaveCacheEntry ==
    /\ [](\A j \in jobs \cup due : j.id \in DOMAIN deadlines)
    /\ [](\A g \in DOMAIN scheduled_jobs : g \in DOMAIN deadlines)
    /\ [][(DOMAIN deadlines) \subseteq (DOMAIN deadlines')
          \/ (ProcessRestarts /\ due' = {})]_vars
    /\ [][\A j \in due : JobRuns(j) => Len(fire'.sent) = 1]_vars

\* a run made its send for a group whose table row does not hold the cached
\* date
C18_Witness ==
    /\ fire.ran
    /\ Len(fire.sent) = 1
    /\ fire.sent[1].to \in DOMAIN deadlines
    /\ fire.sent[1].to \in DOMAIN db
    /\ db[fire.sent[1].to] # deadlines[fire.sent[1].to]
    /\ JobsOf(jobs, fire.sent[1].to) # {}

====
